---------------------------- MODULE Spec2Model ----------------------------
(***************************************************************************)
(* Model of cargomatic_agent.py: the CargomaticAgent run started by main() *)
(* (login, search_global and the four steps search_global calls), and the  *)
(* pure helper extract_city nested in find_rate_card.                      *)
(*                                                                         *)
(* A Python str is modelled as a sequence of one-character strings.  Every *)
(* Playwright call is a step that either returns or raises; what a call    *)
(* reads from the browser (URL, element count, element text) is chosen     *)
(* nondeterministically at the call.  input() is assumed to be attached to *)
(* the operator's terminal: it blocks until Enter and does not raise.      *)
(***************************************************************************)
EXTENDS Integers, Sequences, FiniteSets, TLC

VARIABLES
    pc,                 \* position of the script (method_line of the next statement)
    url_login,          \* "login" in self.page.url
    pickup_location,    \* self.pickup_location (NoAttr until first assigned)
    delivery_location,  \* self.delivery_location (NoAttr until first assigned)
    count,              \* extract_shipment_info: count
    i,                  \* extract_shipment_info: loop index
    texts,              \* extract_shipment_info: the inner_text() results read so far
    addresses,          \* extract_shipment_info: addresses
    sop_page,           \* self.sop_page: [set, google, signin]
    inputRequested,     \* input(...) has been called
    inputReceived,      \* input(...) has returned
    pickup,             \* find_rate_card: pickup (parameter, then the value used)
    delivery,           \* find_rate_card: delivery (parameter, then the value used)
    pickup_city,        \* find_rate_card: pickup_city
    delivery_city,      \* find_rate_card: delivery_city
    task,               \* the cities named by the printed task description, <<>> if none printed
    rate_result,        \* what find_rate_card returned ("pending" before it returns)
    started,            \* history: the steps in the order they were started
    completed,          \* history: the steps whose own statements have ended
    failed,             \* history: the steps in which an exception was caught
    out,                \* the messages printed so far that tell the paths apart
    files,              \* the debug files written so far
    address,            \* extract_city: the argument
    result              \* extract_city: [raised, value] once applied

vars == <<pc, url_login, pickup_location, delivery_location, count, i, texts,
          addresses, sop_page, inputRequested, inputReceived, pickup,
          delivery, pickup_city, delivery_city, task, rate_result, started, completed, failed, out,
          files, address, result>>

---------------------------------------------------------------------------
(* Bounds *)

\* longest address string given to extract_city in SpecCity
MaxAddrLen == 5

\* largest number of map overlays (.gm-style-iw-d elements) on the details page
MaxOverlays == 2

---------------------------------------------------------------------------
(* Strings *)

\* str.strip() and str.split() without argument treat these as whitespace
Whitespace == {" ", "\n"}

Alphabet == {"a", " ", ","}

RECURSIVE StringsOfLen(_)
StringsOfLen(n) ==
    IF n = 0 THEN {<<>>}
    ELSE {Append(s, c) : s \in StringsOfLen(n - 1), c \in Alphabet}

Strings == UNION {StringsOfLen(n) : n \in 0..MaxAddrLen}

\* the sentinel "Unknown"
Unknown == <<"U", "n", "k", "n", "o", "w", "n">>

\* Python's None, the default of find_rate_card's parameters
None == <<"<None>">>

\* an attribute that was never assigned (getattr falls back to its default)
NoAttr == <<"<no attribute>">>

\* the inner_text() values an overlay can have
Texts == {<<"a">>, <<"a", "\n", "b", "\n", "c">>}

Contains(s, c) == \E k \in 1..Len(s) : s[k] = c

\* s.split(sep) for a one-character sep
RECURSIVE split(_, _)
split(s, sep) ==
    IF ~Contains(s, sep) THEN <<s>>
    ELSE LET k == CHOOSE k \in 1..Len(s) :
                      s[k] = sep /\ \A j \in 1..(k - 1) : s[j] # sep
         IN  <<SubSeq(s, 1, k - 1)>> \o split(SubSeq(s, k + 1, Len(s)), sep)

RECURSIVE lstrip(_)
lstrip(s) ==
    IF s # <<>> /\ s[1] \in Whitespace THEN lstrip(Tail(s)) ELSE s

RECURSIVE rstrip(_)
rstrip(s) ==
    IF s # <<>> /\ s[Len(s)] \in Whitespace
    THEN rstrip(SubSeq(s, 1, Len(s) - 1)) ELSE s

\* s.strip()
strip(s) == rstrip(lstrip(s))

\* s.split(): the maximal runs of non-whitespace characters
RECURSIVE split_ws(_)
split_ws(s) ==
    LET t == lstrip(s)
    IN  IF t = <<>> THEN <<>>
        ELSE LET n == CHOOSE n \in 1..Len(t) :
                          /\ \A j \in 1..n : t[j] \notin Whitespace
                          /\ (n = Len(t) \/ t[n + 1] \in Whitespace)
             IN  <<SubSeq(t, 1, n)>> \o split_ws(SubSeq(t, n + 1, Len(t)))

\* text.replace("\n", ", ")
RECURSIVE replace_newlines(_)
replace_newlines(s) ==
    IF s = <<>> THEN <<>>
    ELSE (IF s[1] = "\n" THEN <<",", " ">> ELSE <<s[1]>>)
         \o replace_newlines(Tail(s))

\* the value of an expression, or the exception it raised
Value(v) == [raised |-> FALSE, value |-> v]
Raised == [raised |-> TRUE, value |-> <<>>]

\* a mis-implementation of extract_city that forgets p.strip()
extract_city_unstripped(addr) ==
    IF Contains(addr, ",")
    THEN LET parts == split(addr, ",")
         IN  IF Len(parts) >= 3 THEN Value(parts[2])
             ELSE IF Len(parts) = 2
                  THEN IF parts[2] # <<>>
                       THEN (IF split_ws(parts[2]) = <<>> THEN Raised
                             ELSE Value(split_ws(parts[2])[1]))
                       ELSE Value(parts[2])
                  ELSE Value(addr)
    ELSE Value(addr)

\* a mis-implementation of extract_city that strips the address it returns as is
extract_city_stripped(addr) ==
    IF Contains(addr, ",")
    THEN LET raw == split(addr, ",")
             parts == [k \in 1..Len(raw) |-> strip(raw[k])]
         IN  IF Len(parts) >= 3 THEN Value(parts[2])
             ELSE IF Len(parts) = 2
                  THEN IF parts[2] # <<>>
                       THEN (IF split_ws(parts[2]) = <<>> THEN Raised
                             ELSE Value(split_ws(parts[2])[1]))
                       ELSE Value(parts[2])
                  ELSE Value(strip(addr))
    ELSE Value(strip(addr))

\* a mis-implementation of extract_city that takes the last part as the city
extract_city_lastpart(addr) ==
    IF Contains(addr, ",")
    THEN LET raw == split(addr, ",")
             parts == [k \in 1..Len(raw) |-> strip(raw[k])]
         IN  IF Len(parts) >= 3 THEN Value(parts[Len(parts)])
             ELSE IF Len(parts) = 2
                  THEN IF parts[2] # <<>>
                       THEN (IF split_ws(parts[2]) = <<>> THEN Raised
                             ELSE Value(split_ws(parts[2])[1]))
                       ELSE Value(parts[2])
                  ELSE Value(addr)
    ELSE Value(addr)

\* find_rate_card.extract_city; parts[1].split()[0] raises IndexError when
\* parts[1].split() is empty
extract_city(addr) ==
    IF Contains(addr, ",")
    THEN LET raw == split(addr, ",")
             parts == [k \in 1..Len(raw) |-> strip(raw[k])]
         IN  IF Len(parts) >= 3 THEN Value(parts[2])
             ELSE IF Len(parts) = 2
                  THEN IF parts[2] # <<>>
                       THEN (IF split_ws(parts[2]) = <<>> THEN Raised
                             ELSE Value(split_ws(parts[2])[1]))
                       ELSE Value(parts[2])
                  ELSE Value(addr)
    ELSE Value(addr)

---------------------------------------------------------------------------
(* The run: main() -> login -> search_global -> the four nested steps *)

extractVars == <<count, i, texts, addresses>>
locVars == <<pickup_location, delivery_location>>
sopVars == <<sop_page, inputRequested, inputReceived>>
rateVars == <<pickup, delivery, pickup_city, delivery_city, task, rate_result>>
histVars == <<started, completed, failed>>
cityVars == <<address, result>>

\* the order in which main and search_global call the steps
Steps == <<"login", "search_global", "extract_shipment_info",
           "click_shipper_link", "navigate_to_sop", "find_rate_card">>

NoPage == [set |-> FALSE, google |-> FALSE, signin |-> FALSE]

\* the state when main has run agent.start() and is about to call agent.login
Init ==
    /\ pc = "main_453"
    /\ url_login = FALSE
    /\ pickup_location = NoAttr
    /\ delivery_location = NoAttr
    /\ count = 0
    /\ i = 0
    /\ texts = <<>>
    /\ addresses = <<>>
    /\ sop_page = NoPage
    /\ inputRequested = FALSE
    /\ inputReceived = FALSE
    /\ pickup = None
    /\ delivery = None
    /\ pickup_city = <<>>
    /\ delivery_city = <<>>
    /\ task = <<>>
    /\ rate_result = "pending"
    /\ started = <<>>
    /\ completed = {}
    /\ failed = {}
    /\ out = {}
    /\ files = {}
    /\ address = <<>>
    /\ result = Value(<<>>)

\* main: agent.login(username, password)
main_call_login ==
    /\ pc = "main_453"
    /\ pc' = "login_40"
    /\ started' = Append(started, "login")
    /\ UNCHANGED <<url_login, locVars, extractVars, sopVars, rateVars,
                   completed, failed, out, files, cityVars>>

\* login: page.goto(base_url) and the test "login" in self.page.url
login_goto ==
    /\ pc = "login_40"
    /\ \E ok \in BOOLEAN, onLogin \in BOOLEAN :
         IF ok
         THEN /\ url_login' = onLogin
              /\ pc' = IF onLogin THEN "login_46" ELSE "login_return"
              /\ out' = out \cup {IF onLogin THEN "Logging in..."
                                  ELSE "Already logged in or redirected."}
         ELSE /\ pc' = "login_63"
              /\ UNCHANGED <<url_login, out>>
    /\ UNCHANGED <<locVars, extractVars, sopVars, rateVars, histVars,
                   files, cityVars>>

LoginFormNext ==
    [login_46 |-> "login_49", login_49 |-> "login_50",
     login_50 |-> "login_53", login_53 |-> "login_57"]

\* login: wait_for_selector, fill, fill, click
login_form ==
    /\ pc \in DOMAIN LoginFormNext
    /\ \E ok \in BOOLEAN :
         pc' = IF ok THEN LoginFormNext[pc] ELSE "login_63"
    /\ UNCHANGED <<url_login, locVars, extractVars, sopVars, rateVars,
                   histVars, out, files, cityVars>>

\* login: wait_for_function(href.indexOf('login') === -1), then "Login successful!"
login_wait_for_function ==
    /\ pc = "login_57"
    /\ \E ok \in BOOLEAN :
         IF ok
         THEN /\ url_login' = FALSE
              /\ out' = out \cup {"Login successful!"}
              /\ pc' = "login_return"
         ELSE /\ pc' = "login_63"
              /\ UNCHANGED <<url_login, out>>
    /\ UNCHANGED <<locVars, extractVars, sopVars, rateVars, histVars,
                   files, cityVars>>

\* login, except: print "Login failed", page.screenshot (not guarded)
login_except_screenshot ==
    /\ pc = "login_63"
    /\ failed' = failed \cup {"login"}
    /\ \E ok \in BOOLEAN :
         IF ok
         THEN /\ files' = files \cup {"login_debug.png"}
              /\ pc' = "login_68"
         ELSE /\ pc' = "raised"
              /\ UNCHANGED files
    /\ out' = out \cup {"Login failed"}
    /\ UNCHANGED <<url_login, locVars, extractVars, sopVars, rateVars,
                   started, completed, cityVars>>

\* login, except: write page.content() to login_debug.html (not guarded)
login_except_dump ==
    /\ pc = "login_68"
    /\ \E ok \in BOOLEAN :
         IF ok
         THEN /\ files' = files \cup {"login_debug.html"}
              /\ pc' = "login_return"
         ELSE /\ pc' = "raised"
              /\ UNCHANGED files
    /\ UNCHANGED <<url_login, locVars, extractVars, sopVars, rateVars,
                   histVars, out, cityVars>>

\* login returns to main
login_return ==
    /\ pc = "login_return"
    /\ completed' = completed \cup {"login"}
    /\ pc' = "main_456"
    /\ UNCHANGED <<url_login, locVars, extractVars, sopVars, rateVars,
                   started, failed, out, files, cityVars>>

\* main: agent.search_global("AUT-201270")
main_call_search_global ==
    /\ pc = "main_456"
    /\ pc' = "search_103"
    /\ started' = Append(started, "search_global")
    /\ UNCHANGED <<url_login, locVars, extractVars, sopVars, rateVars,
                   completed, failed, out, files, cityVars>>

SearchNext ==
    [search_103 |-> "search_105", search_105 |-> "search_106",
     search_106 |-> "search_111", search_111 |-> "search_114",
     search_114 |-> "search_118"]

\* search_global: wait for the search field, fill, press, wait for the result
\* list, click
search_global_call ==
    /\ pc \in DOMAIN SearchNext
    /\ \E ok \in BOOLEAN :
         pc' = IF ok THEN SearchNext[pc] ELSE "search_131"
    /\ UNCHANGED <<url_login, locVars, extractVars, sopVars, rateVars,
                   histVars, out, files, cityVars>>

\* search_global: wait_for_url("**/shipments/**")
search_global_wait_for_url ==
    /\ pc = "search_118"
    /\ \E ok \in BOOLEAN :
         IF ok
         THEN /\ out' = out \cup {"Navigated to"}
              /\ completed' = completed \cup {"search_global"}
              /\ pc' = "search_122"
         ELSE /\ pc' = "search_131"
              /\ UNCHANGED <<out, completed>>
    /\ UNCHANGED <<url_login, locVars, extractVars, sopVars, rateVars,
                   started, failed, files, cityVars>>

\* a search_global whose handler goes on with the steps after the search
search_global_except_continue ==
    /\ pc = "search_131"
    /\ out' = out \cup {"Global search failed"}
    /\ failed' = failed \cup {"search_global"}
    /\ completed' = completed \cup {"search_global"}
    /\ pc' = "search_122"
    /\ UNCHANGED <<url_login, locVars, extractVars, sopVars, rateVars,
                   started, files, cityVars>>

\* a search_global whose handler searches again
search_global_except_retry ==
    /\ pc = "search_131"
    /\ out' = out \cup {"Global search failed"}
    /\ failed' = failed \cup {"search_global"}
    /\ started' = Append(started, "search_global")
    /\ pc' = "search_103"
    /\ UNCHANGED <<url_login, locVars, extractVars, sopVars, rateVars,
                   completed, files, cityVars>>

\* search_global, except: print "Global search failed" and return
search_global_except ==
    /\ pc = "search_131"
    /\ out' = out \cup {"Global search failed"}
    /\ failed' = failed \cup {"search_global"}
    /\ completed' = completed \cup {"search_global"}
    /\ pc' = "search_return"
    /\ UNCHANGED <<url_login, locVars, extractVars, sopVars, rateVars,
                   started, files, cityVars>>

\* search_global: self.extract_shipment_info()
search_global_call_extract ==
    /\ pc = "search_122"
    /\ pc' = "extract_170"
    /\ started' = Append(started, "extract_shipment_info")
    /\ UNCHANGED <<url_login, locVars, extractVars, sopVars, rateVars,
                   completed, failed, out, files, cityVars>>

---------------------------------------------------------------------------
(* extract_shipment_info *)

\* extract_shipment_info: wait_for_selector(".gm-style-iw-d")
extract_wait_for_selector ==
    /\ pc = "extract_170"
    /\ \E ok \in BOOLEAN :
         pc' = IF ok THEN "extract_173" ELSE "extract_191"
    /\ UNCHANGED <<url_login, locVars, extractVars, sopVars, rateVars,
                   histVars, out, files, cityVars>>

\* extract_shipment_info: count = address_elements.count(); addresses = []
extract_count ==
    /\ pc = "extract_173"
    /\ \E ok \in BOOLEAN, n \in 0..MaxOverlays :
         IF ok
         THEN /\ count' = n
              /\ i' = 0
              /\ texts' = <<>>
              /\ addresses' = <<>>
              /\ pc' = "extract_177"
         ELSE /\ pc' = "extract_191"
              /\ UNCHANGED extractVars
    /\ UNCHANGED <<url_login, locVars, sopVars, rateVars, histVars, out,
                   files, cityVars>>

\* extract_shipment_info: one turn of the loop over range(count)
extract_loop ==
    /\ pc = "extract_177"
    /\ i < count
    /\ \E ok \in BOOLEAN, text \in Texts :
         IF ok
         THEN /\ texts' = Append(texts, text)
              /\ addresses' = Append(addresses, replace_newlines(text))
              /\ i' = i + 1
              /\ pc' = "extract_177"
         ELSE /\ pc' = "extract_191"
              /\ UNCHANGED <<texts, addresses, i>>
    /\ UNCHANGED <<url_login, locVars, count, sopVars, rateVars, histVars,
                   out, files, cityVars>>

\* an extract_shipment_info that falls back to "Unknown" whenever it found
\* fewer than two addresses
extract_assign_unknown_below_two ==
    /\ pc = "extract_177"
    /\ i = count
    /\ IF Len(addresses) >= 2
       THEN /\ pickup_location' = addresses[1]
            /\ delivery_location' = addresses[Len(addresses)]
       ELSE /\ pickup_location' = Unknown
            /\ delivery_location' = Unknown
    /\ pc' = "extract_return"
    /\ UNCHANGED <<url_login, extractVars, sopVars, rateVars, histVars,
                   out, files, cityVars>>

\* extract_shipment_info: the assignment after the loop
extract_assign ==
    /\ pc = "extract_177"
    /\ i = count
    /\ IF Len(addresses) >= 2
       THEN /\ pickup_location' = addresses[1]
            /\ delivery_location' = addresses[Len(addresses)]
       ELSE /\ pickup_location' =
                  IF addresses # <<>> THEN addresses[1] ELSE Unknown
            /\ delivery_location' =
                  IF addresses # <<>> THEN addresses[Len(addresses)] ELSE Unknown
    /\ pc' = "extract_return"
    /\ UNCHANGED <<url_login, extractVars, sopVars, rateVars, histVars,
                   out, files, cityVars>>

\* an extract_shipment_info whose handler resets the pickup location only
extract_except_pickup_only ==
    /\ pc = "extract_191"
    /\ pickup_location' = Unknown
    /\ failed' = failed \cup {"extract_shipment_info"}
    /\ out' = out \cup {"Error extracting shipment info"}
    /\ pc' = "extract_return"
    /\ UNCHANGED <<url_login, delivery_location, extractVars, sopVars,
                   rateVars, started, completed, files, cityVars>>

\* extract_shipment_info, except: both locations become "Unknown"
extract_except ==
    /\ pc = "extract_191"
    /\ pickup_location' = Unknown
    /\ delivery_location' = Unknown
    /\ failed' = failed \cup {"extract_shipment_info"}
    /\ out' = out \cup {"Error extracting shipment info"}
    /\ pc' = "extract_return"
    /\ UNCHANGED <<url_login, extractVars, sopVars, rateVars, started,
                   completed, files, cityVars>>

\* extract_shipment_info returns to search_global; its locals are gone
extract_return ==
    /\ pc = "extract_return"
    /\ completed' = completed \cup {"extract_shipment_info"}
    /\ count' = 0
    /\ i' = 0
    /\ texts' = <<>>
    /\ addresses' = <<>>
    /\ pc' = "search_125"
    /\ UNCHANGED <<url_login, locVars, sopVars, rateVars,
                   started, failed, out, files, cityVars>>

\* search_global: self.click_shipper_link()
search_global_call_shipper ==
    /\ pc = "search_125"
    /\ pc' = "shipper_203"
    /\ started' = Append(started, "click_shipper_link")
    /\ UNCHANGED <<url_login, locVars, extractVars, sopVars, rateVars,
                   completed, failed, out, files, cityVars>>

---------------------------------------------------------------------------
(* click_shipper_link *)

\* click_shipper_link: wait for "Loading..." to detach, inside its own try
shipper_wait_loading ==
    /\ pc = "shipper_203"
    /\ \E ok \in BOOLEAN :
         failed' = IF ok THEN failed ELSE failed \cup {"click_shipper_link"}
    /\ pc' = "shipper_212"
    /\ UNCHANGED <<url_login, locVars, extractVars, sopVars, rateVars,
                   started, completed, out, files, cityVars>>

\* click_shipper_link: shipper_header.count() > 0
shipper_count ==
    /\ pc = "shipper_212"
    /\ \E ok \in BOOLEAN, found \in BOOLEAN :
         IF ok
         THEN IF found
              THEN /\ pc' = "shipper_217"
                   /\ out' = out
              ELSE /\ pc' = "shipper_return"
                   /\ out' = out \cup {"Could not find 'Shipper' header element."}
         ELSE /\ pc' = "shipper_241"
              /\ out' = out
    /\ UNCHANGED <<url_login, locVars, extractVars, sopVars, rateVars,
                   histVars, files, cityVars>>

ShipperNext == [shipper_217 |-> "shipper_220", shipper_220 |-> "shipper_224"]

\* click_shipper_link: shipper_link.inner_text(), shipper_link.click()
shipper_call ==
    /\ pc \in DOMAIN ShipperNext
    /\ \E ok \in BOOLEAN :
         pc' = IF ok THEN ShipperNext[pc] ELSE "shipper_241"
    /\ UNCHANGED <<url_login, locVars, extractVars, sopVars, rateVars,
                   histVars, out, files, cityVars>>

\* click_shipper_link: wait for the shipper page, inside its own try
shipper_wait_for_load_state ==
    /\ pc = "shipper_224"
    /\ \E ok \in BOOLEAN :
         failed' = IF ok THEN failed ELSE failed \cup {"click_shipper_link"}
    /\ pc' = "shipper_234"
    /\ UNCHANGED <<url_login, locVars, extractVars, sopVars, rateVars,
                   started, completed, out, files, cityVars>>

\* click_shipper_link: write page.content() to shipper_page_debug.html
shipper_dump ==
    /\ pc = "shipper_234"
    /\ \E ok \in BOOLEAN :
         IF ok
         THEN /\ files' = files \cup {"shipper_page_debug.html"}
              /\ pc' = "shipper_return"
         ELSE /\ pc' = "shipper_241"
              /\ UNCHANGED files
    /\ UNCHANGED <<url_login, locVars, extractVars, sopVars, rateVars,
                   histVars, out, cityVars>>

\* click_shipper_link, except
shipper_except ==
    /\ pc = "shipper_241"
    /\ failed' = failed \cup {"click_shipper_link"}
    /\ out' = out \cup {"Error clicking shipper link"}
    /\ pc' = "shipper_return"
    /\ UNCHANGED <<url_login, locVars, extractVars, sopVars, rateVars,
                   started, completed, files, cityVars>>

\* click_shipper_link returns to search_global
shipper_return ==
    /\ pc = "shipper_return"
    /\ completed' = completed \cup {"click_shipper_link"}
    /\ pc' = "search_128"
    /\ UNCHANGED <<url_login, locVars, extractVars, sopVars, rateVars,
                   started, failed, out, files, cityVars>>

\* search_global: self.navigate_to_sop()
search_global_call_sop ==
    /\ pc = "search_128"
    /\ pc' = "sop_250"
    /\ started' = Append(started, "navigate_to_sop")
    /\ UNCHANGED <<url_login, locVars, extractVars, sopVars, rateVars,
                   completed, failed, out, files, cityVars>>

---------------------------------------------------------------------------
(* navigate_to_sop *)

SopWaitNext == [sop_250 |-> "sop_257", sop_257 |-> "sop_266"]

\* navigate_to_sop: the two waits for "Loading..." / "Loading SOP...", each
\* inside its own try
sop_wait_loading ==
    /\ pc \in DOMAIN SopWaitNext
    /\ \E ok \in BOOLEAN :
         failed' = IF ok THEN failed ELSE failed \cup {"navigate_to_sop"}
    /\ pc' = SopWaitNext[pc]
    /\ UNCHANGED <<url_login, locVars, extractVars, sopVars, rateVars,
                   started, completed, out, files, cityVars>>

\* navigate_to_sop: locate the SOP link (the count() calls of 267-276)
sop_locate_link ==
    /\ pc = "sop_266"
    /\ \E ok \in BOOLEAN, found \in BOOLEAN :
         IF ok
         THEN IF found
              THEN /\ pc' = "sop_277"
                   /\ out' = out
              ELSE /\ pc' = "sop_320"
                   /\ out' = out \cup {"SOP link not found on shipper page."}
         ELSE /\ pc' = "sop_324"
              /\ out' = out
    /\ UNCHANGED <<url_login, locVars, extractVars, sopVars, rateVars,
                   histVars, files, cityVars>>

\* navigate_to_sop: sop_link.inner_text() for the "Found SOP link" message
sop_link_text ==
    /\ pc = "sop_277"
    /\ \E ok \in BOOLEAN :
         pc' = IF ok THEN "sop_280" ELSE "sop_324"
    /\ UNCHANGED <<url_login, locVars, extractVars, sopVars, rateVars,
                   histVars, out, files, cityVars>>

\* navigate_to_sop: click the link inside expect_page(); self.sop_page is the
\* page that opened, whatever it is
sop_open_page ==
    /\ pc = "sop_280"
    /\ \E ok \in BOOLEAN, g \in BOOLEAN, t \in BOOLEAN :
         IF ok
         THEN /\ sop_page' = [set |-> TRUE, google |-> g, signin |-> t]
              /\ pc' = "sop_284"
         ELSE /\ pc' = "sop_324"
              /\ UNCHANGED sop_page
    /\ UNCHANGED <<url_login, locVars, extractVars, inputRequested,
                   inputReceived, rateVars, histVars, out, files, cityVars>>

\* navigate_to_sop: sop_page.wait_for_load_state("domcontentloaded")
sop_wait_domcontentloaded ==
    /\ pc = "sop_284"
    /\ \E ok \in BOOLEAN :
         IF ok
         THEN /\ out' = out \cup {"Navigated to SOP URL"}
              /\ pc' = "sop_288"
         ELSE /\ pc' = "sop_324"
              /\ out' = out
    /\ UNCHANGED <<url_login, locVars, extractVars, sopVars, rateVars,
                   histVars, files, cityVars>>

\* navigate_to_sop: "accounts.google.com" in url or "Sign in" in title();
\* title() is called only when the URL test is false, and can raise; when the
\* test holds the prompts are printed and input() is called
sop_check_signin ==
    /\ pc = "sop_288"
    /\ \E ok \in BOOLEAN :
         IF sop_page.google \/ (ok /\ sop_page.signin)
         THEN /\ out' = out \cup {"Google Sign-In detected."}
              /\ inputRequested' = TRUE
              /\ pc' = "sop_292"
         ELSE /\ pc' = IF ok THEN "sop_301" ELSE "sop_324"
              /\ UNCHANGED <<out, inputRequested>>
    /\ UNCHANGED <<url_login, locVars, extractVars, sop_page, inputReceived,
                   rateVars, histVars, files, cityVars>>

\* a navigate_to_sop whose prompt does not wait for the operator
sop_input_no_wait ==
    /\ pc = "sop_292"
    /\ out' = out \cup {"Resuming..."}
    /\ pc' = "sop_301"
    /\ UNCHANGED <<url_login, locVars, extractVars, sopVars, rateVars,
                   histVars, files, cityVars>>

\* navigate_to_sop: input(...) returns when the operator presses Enter
sop_input ==
    /\ pc = "sop_292"
    /\ inputReceived' = TRUE
    /\ out' = out \cup {"Resuming..."}
    /\ pc' = "sop_301"
    /\ UNCHANGED <<url_login, locVars, extractVars, sop_page, inputRequested,
                   rateVars, histVars, files, cityVars>>

\* navigate_to_sop: wait for #docs-editor, inside its own try
sop_wait_editor ==
    /\ pc = "sop_301"
    /\ \E ok \in BOOLEAN :
         failed' = IF ok THEN failed ELSE failed \cup {"navigate_to_sop"}
    /\ pc' = "sop_305"
    /\ UNCHANGED <<url_login, locVars, extractVars, sopVars, rateVars,
                   started, completed, out, files, cityVars>>

SopTailNext ==
    [sop_305 |-> "sop_308", sop_308 |-> "sop_311",
     sop_311 |-> "sop_314", sop_314 |-> "sop_return"]

\* navigate_to_sop: wait_for_load_state("networkidle") and the dump of
\* sop_page.content() to sop_debug.html, both done twice
sop_tail ==
    /\ pc \in DOMAIN SopTailNext
    /\ \E ok \in BOOLEAN :
         IF ok
         THEN /\ pc' = SopTailNext[pc]
              /\ files' = IF pc \in {"sop_308", "sop_314"}
                          THEN files \cup {"sop_debug.html"} ELSE files
         ELSE /\ pc' = "sop_324"
              /\ UNCHANGED files
    /\ UNCHANGED <<url_login, locVars, extractVars, sopVars, rateVars,
                   histVars, out, cityVars>>

\* navigate_to_sop, no link: dump page.content() to shipper_page_failed_sop.html
sop_dump_failed ==
    /\ pc = "sop_320"
    /\ \E ok \in BOOLEAN :
         IF ok
         THEN /\ files' = files \cup {"shipper_page_failed_sop.html"}
              /\ pc' = "sop_return"
         ELSE /\ pc' = "sop_324"
              /\ UNCHANGED files
    /\ UNCHANGED <<url_login, locVars, extractVars, sopVars, rateVars,
                   histVars, out, cityVars>>

\* a navigate_to_sop whose handler starts the navigation again
sop_except_retry ==
    /\ pc = "sop_324"
    /\ failed' = failed \cup {"navigate_to_sop"}
    /\ out' = out \cup {"Error navigating to SOP"}
    /\ pc' = "sop_250"
    /\ UNCHANGED <<url_login, locVars, extractVars, sopVars, rateVars,
                   started, completed, files, cityVars>>

\* navigate_to_sop, except
sop_except ==
    /\ pc = "sop_324"
    /\ failed' = failed \cup {"navigate_to_sop"}
    /\ out' = out \cup {"Error navigating to SOP"}
    /\ pc' = "sop_return"
    /\ UNCHANGED <<url_login, locVars, extractVars, sopVars, rateVars,
                   started, completed, files, cityVars>>

\* navigate_to_sop returns to search_global
sop_return ==
    /\ pc = "sop_return"
    /\ completed' = completed \cup {"navigate_to_sop"}
    /\ pc' = "search_129"
    /\ UNCHANGED <<url_login, locVars, extractVars, sopVars, rateVars,
                   started, failed, out, files, cityVars>>

\* search_global: self.find_rate_card()
search_global_call_rate ==
    /\ pc = "search_129"
    /\ pc' = "rate_332"
    /\ started' = Append(started, "find_rate_card")
    /\ pickup' = None
    /\ delivery' = None
    /\ UNCHANGED <<url_login, locVars, extractVars, sopVars, pickup_city,
                   delivery_city, task, rate_result, completed, failed, out,
                   files, cityVars>>

---------------------------------------------------------------------------
(* find_rate_card *)

\* find_rate_card: the try around the switch to the 'Current Rates' tab;
\* self.sop_page raises AttributeError when navigate_to_sop never set it
rate_switch_tab ==
    /\ pc = "rate_332"
    /\ \E outcome \in {"clicked", "clicked (alt selector)", "not found", "error"} :
         /\ ~sop_page.set => outcome = "error"
         /\ out' = out \cup
               {CASE outcome = "clicked" -> "Found 'Current Rates' tab. Clicking..."
                  [] outcome = "clicked (alt selector)" ->
                         "Found 'Current Rates' tab (alt selector). Clicking..."
                  [] outcome = "not found" -> "'Current Rates' tab not found."
                  [] outcome = "error" -> "Error switching tabs"}
         /\ failed' = IF outcome = "error"
                      THEN failed \cup {"find_rate_card"} ELSE failed
    /\ pc' = "rate_350"
    /\ UNCHANGED <<url_login, locVars, extractVars, sopVars, rateVars,
                   started, completed, files, cityVars>>

\* getattr(self, name, 'Unknown')
getattr_or_unknown(attr) == IF attr = NoAttr THEN Unknown ELSE attr

\* x or y
py_or(x, y) == IF x = None \/ x = <<>> THEN y ELSE x

\* find_rate_card: pickup/delivery defaults and the two extract_city calls,
\* which are outside every try
rate_cities ==
    /\ pc = "rate_350"
    /\ pickup' = py_or(pickup, getattr_or_unknown(pickup_location))
    /\ delivery' = py_or(delivery, getattr_or_unknown(delivery_location))
    /\ LET pcity == extract_city(pickup')
           dcity == extract_city(delivery')
       IN  IF pcity.raised \/ dcity.raised
           THEN /\ pc' = "raised"
                /\ UNCHANGED <<pickup_city, delivery_city, out>>
           ELSE /\ pickup_city' = pcity.value
                /\ delivery_city' = dcity.value
                /\ out' = out \cup {"Using Pickup / Using Delivery"}
                /\ pc' = "rate_375"
    /\ UNCHANGED <<url_login, locVars, extractVars, sopVars, task,
                   rate_result, histVars, files, cityVars>>

\* find_rate_card: sop_page.screenshot inside try / bare except
rate_screenshot ==
    /\ pc = "rate_375"
    /\ \E ok \in BOOLEAN :
         /\ ~sop_page.set => ~ok
         /\ files' = IF ok THEN files \cup {"google_sheet_debug.png"} ELSE files
         /\ failed' = IF ok THEN failed ELSE failed \cup {"find_rate_card"}
    /\ pc' = "rate_406"
    /\ UNCHANGED <<url_login, locVars, extractVars, sopVars, rateVars,
                   started, completed, out, cityVars>>

\* a find_rate_card that prints the task description whatever bring_to_front did
rate_bring_to_front_always_print ==
    /\ pc = "rate_406"
    /\ \E ok \in BOOLEAN :
         /\ ~sop_page.set => ~ok
         /\ task' = <<pickup_city, delivery_city>>
         /\ out' = out \cup {"BROWSER AGENT TASK"}
                       \cup (IF ok THEN {} ELSE {"Error using browser agent"})
         /\ failed' = IF ok THEN failed ELSE failed \cup {"find_rate_card"}
    /\ pc' = "rate_return"
    /\ UNCHANGED <<url_login, locVars, extractVars, sopVars, pickup,
                   delivery, pickup_city, delivery_city, rate_result, started,
                   completed, files, cityVars>>

\* find_rate_card: the last try: sop_page.bring_to_front(), then the prints of
\* the task description; the except prints "Error using browser agent"
rate_bring_to_front ==
    /\ pc = "rate_406"
    /\ \E ok \in BOOLEAN :
         /\ ~sop_page.set => ~ok
         /\ IF ok
            THEN /\ task' = <<pickup_city, delivery_city>>
                 /\ out' = out \cup {"BROWSER AGENT TASK"}
                 /\ UNCHANGED failed
            ELSE /\ out' = out \cup {"Error using browser agent"}
                 /\ failed' = failed \cup {"find_rate_card"}
                 /\ UNCHANGED task
    /\ pc' = "rate_return"
    /\ UNCHANGED <<url_login, locVars, extractVars, sopVars, pickup,
                   delivery, pickup_city, delivery_city, rate_result, started,
                   completed, files, cityVars>>

\* find_rate_card returns None to search_global
rate_return ==
    /\ pc = "rate_return"
    /\ rate_result' = "None"
    /\ completed' = completed \cup {"find_rate_card"}
    /\ pc' = "search_return"
    /\ UNCHANGED <<url_login, locVars, extractVars, sopVars, pickup,
                   delivery, pickup_city, delivery_city, task, started, failed,
                   out, files, cityVars>>

\* search_global returns to main
search_global_return ==
    /\ pc = "search_return"
    /\ pc' = "main_459"
    /\ UNCHANGED <<url_login, locVars, extractVars, sopVars, rateVars,
                   histVars, out, files, cityVars>>

\* main: the closing messages, sleep(10) and the empty finally
main_finish ==
    /\ pc = "main_459"
    /\ out' = out \cup {"Browser staying open for inspection..."}
    /\ pc' = "done"
    /\ UNCHANGED <<url_login, locVars, extractVars, sopVars, rateVars,
                   histVars, files, cityVars>>

Next ==
    \/ main_call_login
    \/ login_goto
    \/ login_form
    \/ login_wait_for_function
    \/ login_except_screenshot
    \/ login_except_dump
    \/ login_return
    \/ main_call_search_global
    \/ search_global_call
    \/ search_global_wait_for_url
    \/ search_global_except
    \/ search_global_call_extract
    \/ extract_wait_for_selector
    \/ extract_count
    \/ extract_loop
    \/ extract_assign
    \/ extract_except
    \/ extract_return
    \/ search_global_call_shipper
    \/ shipper_wait_loading
    \/ shipper_count
    \/ shipper_call
    \/ shipper_wait_for_load_state
    \/ shipper_dump
    \/ shipper_except
    \/ shipper_return
    \/ search_global_call_sop
    \/ sop_wait_loading
    \/ sop_locate_link
    \/ sop_link_text
    \/ sop_open_page
    \/ sop_wait_domcontentloaded
    \/ sop_check_signin
    \/ sop_input
    \/ sop_wait_editor
    \/ sop_tail
    \/ sop_dump_failed
    \/ sop_except
    \/ sop_return
    \/ search_global_call_rate
    \/ rate_switch_tab
    \/ rate_cities
    \/ rate_screenshot
    \/ rate_bring_to_front
    \/ rate_return
    \/ search_global_return
    \/ main_finish

Spec == Init /\ [][Next]_vars

\* every statement but input(): a Playwright call returns or raises within its
\* timeout and time.sleep ends, so the script always takes its next step;
\* nothing makes the operator press Enter
Script == pc # "sop_292" /\ Next

SpecLive == Init /\ [][Next]_vars /\ WF_vars(Script)

---------------------------------------------------------------------------
(* extract_city on its own: every address up to MaxAddrLen, "Unknown", and the
   documented examples *)

\* the addresses and cities of the two end-to-end examples of the documentation
ExampleSpringfield ==
    <<"1", "2", "3", " ", "M", "a", "i", "n", " ", "S", "t", ",", " ",
      "S", "p", "r", "i", "n", "g", "f", "i", "e", "l", "d", ",", " ",
      "I", "L", " ", "6", "2", "7", "0", "4">>

Springfield ==
    <<"S", "p", "r", "i", "n", "g", "f", "i", "e", "l", "d">>

ExampleChicago ==
    <<"C", "h", "i", "c", "a", "g", "o", ",", " ", "I", "L">>

IL ==
    <<"I", "L">>

Examples == {ExampleSpringfield, ExampleChicago}

InitCity ==
    /\ pc = "city_input"
    /\ url_login = FALSE
    /\ pickup_location = NoAttr
    /\ delivery_location = NoAttr
    /\ count = 0
    /\ i = 0
    /\ texts = <<>>
    /\ addresses = <<>>
    /\ sop_page = NoPage
    /\ inputRequested = FALSE
    /\ inputReceived = FALSE
    /\ pickup = None
    /\ delivery = None
    /\ pickup_city = <<>>
    /\ delivery_city = <<>>
    /\ task = <<>>
    /\ rate_result = "pending"
    /\ started = <<>>
    /\ completed = {}
    /\ failed = {}
    /\ out = {}
    /\ files = {}
    /\ address \in Strings \cup {Unknown} \cup Examples
    /\ result = Value(<<>>)

\* city = extract_city(address)
city_apply ==
    /\ pc = "city_input"
    /\ result' = extract_city(address)
    /\ pc' = "city_applied"
    /\ UNCHANGED <<url_login, locVars, extractVars, sopVars, rateVars,
                   histVars, out, files, address>>

NextCity == city_apply

SpecCity == InitCity /\ [][NextCity]_vars

---------------------------------------------------------------------------
(* Properties of extract_city, checked under SpecCity *)

Commas(s) == {k \in 1..Len(s) : s[k] = ","}

Min(S) == CHOOSE x \in S : \A y \in S : x <= y
Max(S) == CHOOSE x \in S : \A y \in S : x >= y

\* the characters between the first comma and the second comma (or the end)
SecondPart(s) ==
    LET c1 == Min(Commas(s))
        rest == Commas(s) \ {c1}
        c2 == IF rest = {} THEN Len(s) + 1 ELSE Min(rest)
    IN  SubSeq(s, c1 + 1, c2 - 1)

\* y is x without its leading and trailing whitespace
IsTrimOf(y, x) ==
    /\ \E a \in 1..(Len(x) + 1), b \in 0..Len(x) :
         /\ y = SubSeq(x, a, b)
         /\ \A k \in 1..Len(x) : (k < a \/ k > b) => x[k] \in Whitespace
    /\ y # <<>> => y[1] \notin Whitespace /\ y[Len(y)] \notin Whitespace

\* y is the first maximal run of non-whitespace characters of x, or empty
\* when x has no such run
IsFirstTokenOf(y, x) ==
    LET solid == {k \in 1..Len(x) : x[k] \notin Whitespace}
    IN  IF solid = {} THEN y = <<>>
        ELSE LET a == Min(solid)
                 b == Max({k \in a..Len(x) : \A j \in a..k : j \in solid})
             IN  y = SubSeq(x, a, b)

\* C4: for every address with two or more commas (three or more parts),
\* extract_city returns the second part without its surrounding whitespace
\* and does not raise; the documented example gives "Springfield".
C4_SecondPartTrimmed ==
    pc = "city_applied" =>
        /\ Cardinality(Commas(address)) >= 2 =>
               /\ ~result.raised
               /\ IsTrimOf(result.value, SecondPart(address))
        /\ address = ExampleSpringfield => result = Value(Springfield)

C4_Witness ==
    /\ pc = "city_applied"
    /\ Cardinality(Commas(address)) >= 2
    /\ result.value # <<>>
    /\ result.value # SecondPart(address)

\* C5: for every address with exactly one comma (two parts), extract_city
\* does not raise and returns the first whitespace-delimited token of the
\* second part, which is the empty string when the second part is empty or
\* only whitespace; the documented example "Chicago, IL" gives "IL".
C5_FirstTokenOfSecondPart ==
    pc = "city_applied" =>
        /\ Cardinality(Commas(address)) = 1 =>
               /\ ~result.raised
               /\ IsFirstTokenOf(result.value, SecondPart(address))
        /\ address = ExampleChicago => result = Value(IL)

C5_Witness ==
    /\ pc = "city_applied"
    /\ Cardinality(Commas(address)) = 1
    /\ SecondPart(address) # <<>>
    /\ \A k \in 1..Len(SecondPart(address)) :
           SecondPart(address)[k] \in Whitespace
    /\ result = Value(<<>>)

\* C6: for every address without a comma, extract_city returns the address
\* itself, untrimmed and unsplit; "Unknown" gives "Unknown".
C6_NoCommaUnchanged ==
    pc = "city_applied" =>
        /\ Commas(address) = {} => result = Value(address)
        /\ address = Unknown => result = Value(Unknown)

C6_Witness ==
    /\ pc = "city_applied"
    /\ Commas(address) = {}
    /\ Len(address) >= 3
    /\ address[1] \in Whitespace
    /\ address[2] \notin Whitespace
    /\ address[3] \in Whitespace
    /\ result.value = address

---------------------------------------------------------------------------
(* Properties of the run, checked under Spec *)

Range(f) == {f[k] : k \in DOMAIN f}

Started(step) == step \in Range(started)

\* what replace("\n", ", ") makes of each overlay text of Texts
OverlayAddress(text) ==
    CASE text = <<"a">> -> <<"a">>
      [] text = <<"a", "\n", "b", "\n", "c">> ->
             <<"a", ",", " ", "b", ",", " ", "c">>

\* the city of each value a location can take
CityOf(location) ==
    CASE location = <<"a">> -> <<"a">>
      [] location = <<"a", ",", " ", "b", ",", " ", "c">> -> <<"b">>
      [] location = Unknown -> Unknown

\* extract_shipment_info is about to return after reading all count overlays
ExtractReadAll ==
    /\ pc = "extract_return"
    /\ "extract_shipment_info" \notin failed

\* C1 as stated: with N texts read, N >= 2 gives pickup = first text and
\* delivery = last text, and N < 2 gives "Unknown" for both.
C1_Original ==
    ExtractReadAll =>
        LET N == Len(texts)
        IN  /\ N >= 2 => /\ pickup_location = texts[1]
                         /\ delivery_location = texts[N]
            /\ N < 2 => /\ pickup_location = Unknown
                        /\ delivery_location = Unknown

\* C1 as amended: with N texts read, N >= 1 gives pickup = first text and
\* delivery = last text, each with every newline replaced by ", " (so for
\* N = 1 both are the single text); only N = 0 gives "Unknown" for both.
C1_AddressAssignment ==
    ExtractReadAll =>
        LET N == Len(texts)
        IN  /\ N = count
            /\ N >= 1 => /\ pickup_location = OverlayAddress(texts[1])
                         /\ delivery_location = OverlayAddress(texts[N])
            /\ N = 0 => /\ pickup_location = Unknown
                        /\ delivery_location = Unknown

C1_Witness ==
    /\ ExtractReadAll
    /\ Len(texts) >= 2
    /\ texts[1] # texts[Len(texts)]
    /\ pickup_location # delivery_location
    /\ pickup_location # texts[1]

\* where the caller goes on after each step has returned
CallOfNext ==
    [login |-> "main_456", extract_shipment_info |-> "search_125",
     click_shipper_link |-> "search_128", navigate_to_sop |-> "search_129"]

C3_NoPropagation == pc # "raised"

\* C7 as stated: every call of find_rate_card that has returned has printed
\* the task description naming the two cities, and returned no rate.
C7_Original ==
    "find_rate_card" \in completed =>
        /\ "BROWSER AGENT TASK" \in out
        /\ task = <<CityOf(pickup_location), CityOf(delivery_location)>>
        /\ rate_result = "None"

\* C7 as amended: every call of find_rate_card returns None and has logged
\* both cities in the "Using Pickup/Delivery" lines; it prints the task
\* description naming the two cities exactly when self.sop_page exists and
\* bring_to_front succeeds (otherwise it prints "Error using browser agent"),
\* whatever happened to the tab switch and the screenshot.
C7_TaskEmission ==
    "find_rate_card" \in completed =>
        /\ rate_result = "None"
        /\ "Using Pickup / Using Delivery" \in out
        /\ pickup_city = CityOf(pickup_location)
        /\ delivery_city = CityOf(delivery_location)
        /\ "BROWSER AGENT TASK" \in out <=> "Error using browser agent" \notin out
        /\ ~sop_page.set => "BROWSER AGENT TASK" \notin out
        /\ task = IF "BROWSER AGENT TASK" \in out
                  THEN <<pickup_city, delivery_city>> ELSE <<>>

C7_Witness ==
    /\ "find_rate_card" \in completed
    /\ "'Current Rates' tab not found." \in out
    /\ "google_sheet_debug.png" \notin files
    /\ task = <<pickup_city, delivery_city>>
    /\ pickup_city # delivery_city
    /\ pickup_location # Unknown

IsSignIn(page) == page.set /\ (page.google \/ page.signin)

\* the positions of navigate_to_sop after the sign-in check and the prompt
AfterSignInCheck == {"sop_301"} \cup DOMAIN SopTailNext

LoginPcs ==
    {"main_453", "login_40", "login_57", "login_63", "login_68", "login_return"}
        \cup DOMAIN LoginFormNext

\* C10: once a login in which some call failed is over, login_debug.png and
\* login_debug.html are both written and login has returned; and "Login
\* successful!" is printed only when the URL no longer contains "login".
C10_LoginFailureArtifacts ==
    /\ ("login" \in failed /\ pc \notin LoginPcs) =>
           /\ {"login_debug.png", "login_debug.html"} \subseteq files
           /\ "login" \in completed
    /\ (pc = "login_return" /\ "Login successful!" \in out) => ~url_login


\* the run is over: main reached its end, or an exception left it
Finished == pc \in {"done", "raised"}

C12_LocationsTogether ==
    /\ pc = "extract_return" =>
           /\ pickup_location # NoAttr /\ delivery_location # NoAttr
           /\ \/ pickup_location = Unknown /\ delivery_location = Unknown
              \/ /\ "extract_shipment_info" \notin failed
                 /\ \E j \in 1..Len(texts), k \in 1..Len(texts) :
                        /\ pickup_location = OverlayAddress(texts[j])
                        /\ delivery_location = OverlayAddress(texts[k])
           /\ "extract_shipment_info" \in failed =>
                  pickup_location = Unknown /\ delivery_location = Unknown
    /\ "extract_shipment_info" \in completed =>
           /\ pickup_location # NoAttr /\ delivery_location # NoAttr
           /\ pickup_location = Unknown <=> delivery_location = Unknown
    /\ "Using Pickup / Using Delivery" \in out =>
           /\ pickup = pickup_location
           /\ delivery = delivery_location
           /\ pickup # None /\ delivery # None

C12_Witness ==
    /\ "find_rate_card" \in completed
    /\ "extract_shipment_info" \in failed
    /\ pickup = Unknown
    /\ delivery = Unknown
    /\ task = <<Unknown, Unknown>>

=============================================================================
